---- MODULE Spec2Model ----
(***************************************************************************)
(* Model of src/app.py: a Streamlit dashboard script.  One run of the      *)
(* script is load_data (memoised by st.cache_data), the two sidebar        *)
(* filters, the record selector with its detail card, and the frequency /  *)
(* epidemiology tabs.  The script is re-run on every input change.         *)
(*                                                                         *)
(* Text is a sequence of one-character strings, so that strip, slicing,    *)
(* case folding, regular-expression search and number parsing are          *)
(* computed rather than assumed.  A cell of a DataFrame is NaN, a str or   *)
(* a number; a number is kept as sign, decimal mantissa and number of      *)
(* fractional digits.                                                      *)
(*                                                                         *)
(* The data file always has the thirteen columns the script reads.  File   *)
(* cells are written over digits, "-", "." and a few letters, queries over *)
(* letters, blanks, "." and "(": on these the number grammar and the       *)
(* regular-expression semantics below are those of pandas and re.          *)
(* An uncaught exception ends the run (pc = "aborted"): Streamlit prints   *)
(* the traceback in place of the rest of the page.                         *)
(***************************************************************************)
EXTENDS Integers, Sequences, FiniteSets, TLC

\* ------------------------------------------------------------------ bounds
\* Longest table built from the small rows below.
MaxRows == 2

\* ------------------------------------------------------- program constants
display_limit == 500
NameChars == 40
PhenotypeChars == 60

\* -------------------------------------------------------------------- text
Rep(c, n) == [i \in 1..n |-> c]

Min(a, b) == IF a < b THEN a ELSE b

\* str[:n]
Slice(s, n) == SubSeq(s, 1, Min(n, Len(s)))

\* df.head(n)
headOffByOne(df, n) == SubSeq(df, 1, Min(n + 1, Len(df)))
head(df, n) == SubSeq(df, 1, Min(n, Len(df)))

\* case folding of re.IGNORECASE over the letters the model uses
Lower(c) ==
    CASE c = "A" -> "a"
      [] c = "B" -> "b"
      [] OTHER -> c

IsSpace(c) == c = " "

\* str.strip()
RECURSIVE LStrip(_)
LStrip(s) == IF s # <<>> /\ IsSpace(s[1]) THEN LStrip(Tail(s)) ELSE s
RECURSIVE RStrip(_)
RStrip(s) ==
    IF s # <<>> /\ IsSpace(s[Len(s)]) THEN RStrip(SubSeq(s, 1, Len(s) - 1)) ELSE s
Strip(s) == RStrip(LStrip(s))

\* ----------------------------------------------------------------- numbers
DigitChars == <<"0", "1", "2", "3", "4", "5", "6", "7", "8", "9">>
IsDigit(c) == \E d \in 1..10 : DigitChars[d] = c
DigitVal(c) == (CHOOSE d \in 1..10 : DigitChars[d] = c) - 1

RECURSIVE Pow10(_)
Pow10(k) == IF k = 0 THEN 1 ELSE 10 * Pow10(k - 1)

Unsigned(t) == IF t # <<>> /\ t[1] = "-" THEN Tail(t) ELSE t

\* The decimal literals the C parser of read_csv, pd.to_numeric and float()
\* all accept, over the characters the model uses: [-]digits[.digits]
IsNumeric(t) ==
    LET b == Unsigned(t) IN
    /\ \A i \in 1..Len(b) : IsDigit(b[i]) \/ b[i] = "."
    /\ Cardinality({i \in 1..Len(b) : b[i] = "."}) <= 1
    /\ \E i \in 1..Len(b) : IsDigit(b[i])

RECURSIVE Mantissa(_)
Mantissa(b) ==
    IF b = <<>> THEN 0
    ELSE LET l == b[Len(b)]
             rest == SubSeq(b, 1, Len(b) - 1)
         IN  IF l = "." THEN Mantissa(rest) ELSE 10 * Mantissa(rest) + DigitVal(l)

FracDigits(b) ==
    IF \E i \in 1..Len(b) : b[i] = "."
    THEN Len(b) - (CHOOSE i \in 1..Len(b) : b[i] = ".")
    ELSE 0

\* ------------------------------------------------------------------- cells
NaN == [kind |-> "nan", s |-> <<>>, neg |-> FALSE, mant |-> 0, exp |-> 0]
Str(t) == [kind |-> "str", s |-> t, neg |-> FALSE, mant |-> 0, exp |-> 0]
Num(neg, mant, exp) == [kind |-> "num", s |-> <<>>, neg |-> neg, mant |-> mant, exp |-> exp]
Zero == Num(FALSE, 0, 0)

ParseNum(t) == Num(t # <<>> /\ t[1] = "-", Mantissa(Unsigned(t)), FracDigits(Unsigned(t)))

\* pd.notnull
notnullAlways(cell) == TRUE
notnull(cell) == cell.kind # "nan"

\* x > 0 for a number
Positive(cell) == cell.kind = "num" /\ ~cell.neg /\ cell.mant > 0

\* pd.to_numeric(..., errors='coerce') on one cell
ToNumericCoerce(cell) ==
    CASE cell.kind = "str" -> IF IsNumeric(cell.s) THEN ParseNum(cell.s) ELSE NaN
      [] OTHER -> cell

\* int(x): truncation towards zero
TruncInt(cell) ==
    LET q == cell.mant \div Pow10(cell.exp) IN IF cell.neg THEN 0 - q ELSE q

\* str(n) of an integer
RECURSIVE NatText(_)
NatText(n) ==
    IF n < 10 THEN <<DigitChars[n + 1]>>
    ELSE NatText(n \div 10) \o <<DigitChars[(n % 10) + 1]>>
IntText(n) == IF n < 0 THEN <<"-">> \o NatText(0 - n) ELSE NatText(n)

\* f"rs{int(rsid_val)}" if pd.notnull(rsid_val) else N/A
RsidText(cell) == IF notnull(cell) THEN <<"r", "s">> \o IntText(TruncInt(cell)) ELSE <<"N/A">>

\* astype(str) of a cell of an object or all-NaN column
AsStr(cell) ==
    CASE cell.kind = "str" -> cell.s
      [] cell.kind = "nan" -> <<"n", "a", "n">>
      [] OTHER -> IntText(TruncInt(cell))

\* ------------------------------------------------------------ the data file
freq_cols == <<"af_afr", "af_amr", "af_eas", "af_nfe", "af_fin", "af_sas", "af_asj", "af_oth">>
FreqColSet == {freq_cols[i] : i \in 1..Len(freq_cols)}
TextCols == {"Name", "GeneSymbol", "PhenotypeList", "ClinicalSignificance"}
Columns == {"rsid"} \cup TextCols \cup FreqColSet

\* One line of the file: every cell is text, empty when the field is empty.
RawRow(rsid, name, gene, pheno, afs) ==
    [c \in Columns |->
        CASE c = "rsid" -> rsid
          [] c = "Name" -> name
          [] c = "GeneSymbol" -> gene
          [] c = "PhenotypeList" -> pheno
          [] c = "ClinicalSignificance" -> <<"P">>
          [] OTHER -> IF c \in DOMAIN afs THEN afs[c] ELSE <<>>]

LongName1 == Rep("n", NameChars) \o <<"x">>
LongName2 == Rep("n", NameChars) \o <<"y">>
LongPheno1 == Rep("a", PhenotypeChars) \o <<"b">>
LongPheno2 == Rep("a", PhenotypeChars) \o <<"c">>

T0002 == <<"0", ".", "0", "0", "2">>

SmallRows ==
    { RawRow(<<"1", "7">>, <<"n", "1">>, <<"A", "b">>, <<"a", "B", ";", "c">>,
             [af_eas |-> T0002]),
      RawRow(<<"1", "1", "3", "9", "9", "3", "9", "6", "0">>, <<"n", "1">>, <<>>,
             <<"a", "x", "b">>,
             [af_nfe |-> <<"0", ".", "1", "5">>, af_eas |-> <<"0">>]),
      RawRow(<<>>, LongName1, <<"b">>, LongPheno1, <<>>),
      RawRow(<<"1", ".", "5">>, LongName2, <<"b">>, LongPheno2,
             [af_afr |-> <<"x">>, af_amr |-> <<"-", "0", ".", "1">>, af_eas |-> T0002]),
      RawRow(<<"-", "1">>, <<"n", "2">>, <<"A", "b">>, <<>>,
             [af_afr |-> <<"0", ".", "5">>, af_amr |-> <<"x">>,
              af_oth |-> <<"0", ".", "0", "1">>]),
      RawRow(<<"x", "7">>, <<"n", "2">>, <<"A", "b">>, <<"a", "B", ";", "c">>, <<>>) }

RECURSIVE SeqsUpTo(_, _)
SeqsUpTo(S, n) ==
    IF n = 0 THEN {<<>>}
    ELSE LET shorter == SeqsUpTo(S, n - 1)
         IN  shorter \cup {Append(t, r) : t \in {u \in shorter : Len(u) = n - 1}, r \in S}

\* A table long enough for the display limit to cut it: row i carries rsid i.
BigRow(i) ==
    RawRow(NatText(i), <<"n", "1">>, IF i % 2 = 1 THEN <<"A", "b">> ELSE <<"b">>,
           <<"a", "B", ";", "c">>, [af_eas |-> T0002])
BigTable(n) == [i \in 1..n |-> BigRow(i)]
BigSizes == {display_limit, display_limit + 1, display_limit + 100}

SmallTables == SeqsUpTo(SmallRows, MaxRows)
BigTables == {BigTable(n) : n \in BigSizes}

possible_paths == <<"final_variant_data.csv", "final_variant_data.csv.gz", "final_variant_data.zip">>
PathSet == {possible_paths[i] : i \in 1..Len(possible_paths)}

Absent == [kind |-> "absent", rows |-> <<>>]
Malformed == [kind |-> "malformed", rows |-> <<>>]
Csv(t) == [kind |-> "csv", rows |-> t]

GzTable == <<BigRow(2)>>
ZipTable == <<BigRow(3)>>

\* ------------------------------------------------------------- DataFrames
\* rows, and the columns whose dtype is object (the others are numeric)
NoneDF == [none |-> TRUE, rows |-> <<>>, object_cols |-> {}]
DF(rows, oc) == [none |-> FALSE, rows |-> rows, object_cols |-> oc]

\* pd.read_csv(data_path, low_memory=False): a column is numeric when it has
\* rows and every non-empty cell is a number, else object; an empty field is
\* NaN in both.
ObjectCols(raw) ==
    {c \in Columns :
        Len(raw) = 0 \/ \E i \in 1..Len(raw) : raw[i][c] # <<>> /\ ~IsNumeric(raw[i][c])}

ReadCell(t, isObject) ==
    IF t = <<>> THEN NaN ELSE IF isObject THEN Str(t) ELSE ParseNum(t)

ReadCsv(raw) ==
    LET oc == ObjectCols(raw) IN
    DF([i \in 1..Len(raw) |-> [c \in Columns |-> ReadCell(raw[i][c], c \in oc)]], oc)

\* df['rsid'] = pd.to_numeric(df['rsid'], errors='coerce')
CoerceRsid(df) ==
    DF([i \in 1..Len(df.rows) |->
           [df.rows[i] EXCEPT !["rsid"] = ToNumericCoerce(@)]],
       df.object_cols \ {"rsid"})

\* ------------------------------------------------------------------ state
VARIABLES
    files,            \* the three candidate paths on disk
    cache,            \* st.cache_data's entry for load_data()
    parseCount,       \* how many times pd.read_csv has run in this process
    pc,               \* position of the current script run
    data_path,        \* load_data's data_path in this run ("cached": body not run)
    full_df,
    disease_input,    \* the text typed into the two sidebar inputs
    gene_input,
    disease_search,   \* the same, stripped
    gene_search,
    filtered_df,
    display_df,
    options,          \* the selectbox's options
    selected_option,
    selected_row,     \* [idx: its position in display_df, row: the row]
    rsid_line,        \* the RSID line of the detail card
    has_freq,
    points,           \* valid_m_df, the points handed to the map
    rendered,         \* the elements this run has put on the page
    outcome,          \* the branch in which the run ended
    exception         \* the exception that ended the run, if one did

vars == <<files, cache, parseCount, pc, data_path, full_df, disease_input, gene_input,
          disease_search, gene_search,
          filtered_df, display_df, options, selected_option, selected_row, rsid_line,
          has_freq, points, rendered, outcome, exception>>

NotCached == [filled |-> FALSE, df |-> NoneDF, msgs |-> {}]
NoRow == [idx |-> 0, row |-> [c \in Columns |-> NaN]]

\* ---------------------------------------------------------------- load_data
RECURSIVE FirstExistingFrom(_, _)
FirstExistingFrom(fs, i) ==
    IF i > Len(possible_paths) THEN "None"
    ELSE IF fs[possible_paths[i]].kind # "absent" THEN possible_paths[i]
    ELSE FirstExistingFrom(fs, i + 1)

RECURSIVE LastExistingFrom(_, _)
LastExistingFrom(fs, i) ==
    IF i < 1 THEN "None"
    ELSE IF fs[possible_paths[i]].kind # "absent" THEN possible_paths[i]
    ELSE LastExistingFrom(fs, i - 1)

\* for path in possible_paths: if os.path.exists(path): data_path = path; break
FindLastPath(fs) == LastExistingFrom(fs, Len(possible_paths))
FindDataPath(fs) == FirstExistingFrom(fs, 1)

\* The body of load_data: what it returns, the elements it writes, the path
\* it chose and whether it called pd.read_csv.
LoadBody(fs) ==
    LET path == FindDataPath(fs) IN
    IF path = "None"
    THEN [df |-> NoneDF, msgs |-> {"error_missing_file"}, path |-> path, parsed |-> FALSE]
    ELSE IF fs[path].kind = "malformed"
    THEN [df |-> NoneDF, msgs |-> {"error_read_failed", "error_details"},
          path |-> path, parsed |-> TRUE]
    ELSE [df |-> CoerceRsid(ReadCsv(fs[path].rows)), msgs |-> {}, path |-> path,
          parsed |-> TRUE]

\* @st.cache_data: the body runs only when no entry is stored; the stored
\* value and the elements the body wrote are replayed on a hit.
CacheNeverHit(c) == FALSE
CacheHit(c) == c.filled

LoadOutcome(msgs) ==
    IF "error_missing_file" \in msgs THEN "MissingDataFile" ELSE "ParseError"

LoadData ==
    /\ pc = "start"
    /\ LET hit == CacheHit(cache)
           r == IF hit THEN [df |-> cache.df, msgs |-> cache.msgs, path |-> "cached",
                             parsed |-> FALSE]
                ELSE LoadBody(files)
       IN  /\ cache' = IF hit THEN cache ELSE [filled |-> TRUE, df |-> r.df, msgs |-> r.msgs]
           /\ parseCount' = parseCount + (IF r.parsed THEN 1 ELSE 0)
           /\ data_path' = r.path
           /\ full_df' = r.df
           /\ IF r.df.none
              THEN /\ rendered' = r.msgs \cup {"sidebar_note"}
                   /\ outcome' = LoadOutcome(r.msgs)
                   /\ pc' = "done"
              ELSE /\ rendered' = r.msgs
                   /\ outcome' = "none"
                   /\ pc' = "filter"
    /\ UNCHANGED <<files, disease_input, gene_input, disease_search, gene_search,
                   filtered_df, display_df, options,
                   selected_option, selected_row, rsid_line, has_freq, points, exception>>

\* ------------------------------------------------------------ filter (57-70)
\* What the user may have typed into the two text inputs.
DiseaseInputs ==
    { <<>>, <<" ", "a", "B", " ">>, <<"a", ".">>, <<"(">>, <<"b">> }
GeneInputs == { <<>>, <<" ", " ">>, <<"a", "B">> }

\* re.compile(pat, re.IGNORECASE): over the model's characters a pattern is
\* a run of literals, "." and "("; a "(" that is never closed is re.error.
RegexCompiles(pat) == \A i \in 1..Len(pat) : pat[i] # "("

\* one pattern element against one character ("." matches any but newline)
ElemMatches(p, c) == p = "." \/ Lower(p) = Lower(c)

\* pat.search(text) is not None
RegexSearch(pat, text) ==
    \E off \in 0..(Len(text) - Len(pat)) :
        \A i \in 1..Len(pat) : ElemMatches(pat[i], text[off + i])

\* Series.str.contains(pat, case=False, na=False) on one cell (regex=True is
\* the default): NaN gives na, a str is searched.
CellContains(cell, pat) == cell.kind = "str" /\ RegexSearch(pat, cell.s)

\* df[mask]: the rows whose cell matches, in the table's order
SelectRows(rows, col, pat) ==
    LET Keep(row) == CellContains(row[col], pat) IN SelectSeq(rows, Keep)

\* df[df[col].str.contains(query, case=False, na=False)] when query is not
\* empty.  The .str accessor exists only on an object column (AttributeError
\* otherwise); the pattern is compiled before any row is looked at.
FilterBy(r, col, query) ==
    IF r.exc # "none" \/ query = <<>> THEN r
    ELSE IF col \notin r.df.object_cols THEN [r EXCEPT !.exc = "AttributeError"]
    ELSE IF ~RegexCompiles(query) THEN [r EXCEPT !.exc = "re.error"]
    ELSE [r EXCEPT !.df.rows = SelectRows(r.df.rows, col, query)]

FilterStep(disease_in, gene_in) ==
    /\ pc = "filter"
    /\ LET d == Strip(disease_in)
           g == Strip(gene_in)
           r == FilterBy(FilterBy([df |-> full_df, exc |-> "none"], "PhenotypeList", d),
                         "GeneSymbol", g)
           controls == rendered \cup {"sidebar_header", "sidebar_info", "disease_input",
                                      "gene_input"}
       IN  /\ disease_input' = disease_in
           /\ gene_input' = gene_in
           /\ disease_search' = d
           /\ gene_search' = g
           /\ IF r.exc # "none"
              THEN /\ exception' = r.exc
                   /\ pc' = "aborted"
                   /\ rendered' = controls
                   /\ UNCHANGED <<filtered_df, outcome>>
              ELSE /\ filtered_df' = r.df
                   /\ UNCHANGED exception
                   /\ IF r.df.rows = <<>>
                      THEN /\ rendered' = controls \cup {"record_count", "sidebar_note"}
                           /\ outcome' = "NoMatchingRecords"
                           /\ pc' = "done"
                      ELSE /\ rendered' = controls \cup {"record_count"}
                           /\ UNCHANGED outcome
                           /\ pc' = "select"
    /\ UNCHANGED <<files, cache, parseCount, data_path, full_df, display_df, options,
                   selected_option, selected_row, rsid_line, has_freq, points>>

\* ------------------------------------------------------------ select (73-99)
\* display_df['SelectionName']
SelectionName(row) ==
    AsStr(row["GeneSymbol"]) \o <<" | ">> \o Slice(AsStr(row["Name"]), NameChars)
        \o <<"... | disease: ">> \o Slice(AsStr(row["PhenotypeList"]), PhenotypeChars)
        \o <<"...">>

WithSelectionName(rows) ==
    [i \in 1..Len(rows) |-> [row |-> rows[i], SelectionName |-> SelectionName(rows[i])]]

\* display_df[display_df['SelectionName'] == selected_option].iloc[0]
LastMatch(disp, opt) ==
    LET i == CHOOSE k \in 1..Len(disp) :
                 /\ disp[k].SelectionName = opt
                 /\ \A j \in (k + 1)..Len(disp) : disp[j].SelectionName # opt
    IN  [idx |-> i, row |-> disp[i].row]
FirstMatch(disp, opt) ==
    LET i == CHOOSE k \in 1..Len(disp) :
                 /\ disp[k].SelectionName = opt
                 /\ \A j \in 1..(k - 1) : disp[j].SelectionName # opt
    IN  [idx |-> i, row |-> disp[i].row]

SelectStep ==
    /\ pc = "select"
    /\ LET disp == WithSelectionName(head(filtered_df.rows, display_limit))
           opts == [i \in 1..Len(disp) |-> disp[i].SelectionName]
       IN  \* the user's choice: the selectbox returns one of its options
           \E opt \in {opts[k] : k \in 1..Len(opts)} :
              /\ display_df' = disp
              /\ options' = opts
              /\ selected_option' = opt
              /\ selected_row' = FirstMatch(disp, opt)
              /\ rsid_line' = RsidText(selected_row'.row["rsid"])
    /\ rendered' = rendered \cup {"list_subheader", "selectbox", "detail_card"}
    /\ pc' = "frequency"
    /\ UNCHANGED <<files, cache, parseCount, data_path, full_df, disease_input,
                   gene_input, disease_search, gene_search, filtered_df, has_freq, points, outcome, exception>>

\* ------------------------------------------------------ frequency (101-225)
\* any(pd.notnull(row.get(col)) and float(row.get(col)) > 0 for col in
\* freq_cols): left to right, stopping at the first True; float() of a str
\* that is no number raises ValueError.
RECURSIVE AnyFreqFrom(_, _)
AnyFreqFrom(row, i) ==
    IF i > Len(freq_cols) THEN "False"
    ELSE LET v == row[freq_cols[i]] IN
         IF ~notnull(v) THEN AnyFreqFrom(row, i + 1)
         ELSE IF v.kind = "str" /\ ~IsNumeric(v.s) THEN "ValueError"
         ELSE IF Positive(ToNumericCoerce(v)) THEN "True"
         ELSE AnyFreqFrom(row, i + 1)

Regions == <<"African", "Latino American", "East Asian", "Non-Finnish European",
             "Finnish", "South Asian", "Ashkenazi Jewish", "Other">>
Lats == <<0, 15, 35, 48, 62, 22, 32, -20>>
Lons == <<20, -90, 110, 5, 26, 78, 35, 140>>

map_data(row) ==
    [i \in 1..Len(freq_cols) |->
        [Region |-> Regions[i], Lat |-> Lats[i], Lon |-> Lons[i], Freq |-> row[freq_cols[i]]]]

\* .fillna(0)
FillNa0(cell) == IF cell.kind = "nan" THEN Zero ELSE cell

\* m_df['Freq'] = pd.to_numeric(m_df['Freq'], errors='coerce').fillna(0)
m_df(row) ==
    [i \in 1..Len(freq_cols) |->
        [map_data(row)[i] EXCEPT !.Freq = FillNa0(ToNumericCoerce(@))]]

IsPlotted(p) == Positive(p.Freq)

\* m_df[m_df['Freq'] > 0]
valid_m_df(row) == SelectSeq(m_df(row), IsPlotted)

Tab1WithMap == {"frequency_map"}
Tab1NoData == {"no_frequency_warning", "no_frequency_info"}
\* tab2: the caption naming the row's phenotype, then the fixed prevalence
\* text, the fixed regional table and the fixed three-region map
Tab2 ==
    {"epidemiology_disease_caption", "epidemiology_text", "epidemiology_table",
     "epidemiology_map"}

FrequencyStep ==
    /\ pc = "frequency"
    /\ LET row == selected_row.row
           any == AnyFreqFrom(row, 1)
       IN  IF ~notnull(row["rsid"])
           THEN /\ rendered' = rendered \cup {"missing_rsid_warning", "sidebar_note"}
                /\ outcome' = "MissingRsid"
                /\ pc' = "done"
                /\ UNCHANGED <<has_freq, points, exception>>
           ELSE IF any = "ValueError"
           THEN /\ exception' = "ValueError"
                /\ pc' = "aborted"
                /\ UNCHANGED <<has_freq, points, rendered, outcome>>
           ELSE /\ has_freq' = (any = "True")
                /\ points' = IF has_freq' THEN valid_m_df(row) ELSE <<>>
                /\ rendered' = rendered \cup {"tabs", "sidebar_note"} \cup Tab2
                                   \cup (IF has_freq' THEN Tab1WithMap ELSE Tab1NoData)
                /\ outcome' = IF has_freq' THEN "FrequencyMap" ELSE "NoFrequencyData"
                /\ pc' = "done"
                /\ UNCHANGED exception
    /\ UNCHANGED <<files, cache, parseCount, data_path, full_df, disease_input,
                   gene_input, disease_search, gene_search, filtered_df, display_df, options, selected_option,
                   selected_row, rsid_line>>

\* ------------------------------------------------------------ the next run
\* Any input change re-runs the script from the top; only the cache survives.
Rerun ==
    /\ pc \in {"done", "aborted"}
    /\ pc' = "start"
    /\ data_path' = "None"
    /\ full_df' = NoneDF
    /\ disease_input' = <<>>
    /\ gene_input' = <<>>
    /\ disease_search' = <<>>
    /\ gene_search' = <<>>
    /\ filtered_df' = NoneDF
    /\ display_df' = <<>>
    /\ options' = <<>>
    /\ selected_option' = <<>>
    /\ selected_row' = NoRow
    /\ rsid_line' = <<>>
    /\ has_freq' = FALSE
    /\ points' = <<>>
    /\ rendered' = {}
    /\ outcome' = "none"
    /\ exception' = "none"
    /\ UNCHANGED <<files, cache, parseCount>>

\* Between runs a data file may disappear from the working directory.
RemoveFile(p) ==
    /\ pc = "start"
    /\ files[p].kind # "absent"
    /\ files' = [files EXCEPT ![p] = Absent]
    /\ UNCHANGED <<cache, parseCount, pc, data_path, full_df, disease_input, gene_input,
                   disease_search, gene_search, filtered_df, display_df, options,
                   selected_option, selected_row, rsid_line, has_freq, points, rendered,
                   outcome, exception>>

\* --------------------------------------------------------------------- spec
\* The working directory at start-up: the .csv is absent, unreadable or any
\* of the tables; the compressed copies, when there, hold other data.  The
\* long tables stand alone in the directory.
Directories ==
    { [p \in PathSet |->
          CASE p = "final_variant_data.csv" -> c
            [] p = "final_variant_data.csv.gz" -> g
            [] OTHER -> z] :
        c \in {Absent, Malformed} \cup {Csv(t) : t \in SmallTables},
        g \in {Absent, Malformed, Csv(GzTable)},
        z \in {Absent, Csv(ZipTable)} }
    \cup { [p \in PathSet |-> IF p = "final_variant_data.csv" THEN Csv(t) ELSE Absent] :
              t \in BigTables }

Init ==
    /\ files \in Directories
    /\ cache = NotCached
    /\ parseCount = 0
    /\ pc = "start"
    /\ data_path = "None"
    /\ full_df = NoneDF
    /\ disease_input = <<>>
    /\ gene_input = <<>>
    /\ disease_search = <<>>
    /\ gene_search = <<>>
    /\ filtered_df = NoneDF
    /\ display_df = <<>>
    /\ options = <<>>
    /\ selected_option = <<>>
    /\ selected_row = NoRow
    /\ rsid_line = <<>>
    /\ has_freq = FALSE
    /\ points = <<>>
    /\ rendered = {}
    /\ outcome = "none"
    /\ exception = "none"

Next ==
    \/ LoadData
    \/ \E d \in DiseaseInputs, g \in GeneInputs : FilterStep(d, g)
    \/ SelectStep
    \/ FrequencyStep
    \/ Rerun
    \/ \E p \in PathSet : RemoveFile(p)

Spec == Init /\ [][Next]_vars

\* ================================================================== claims
RunEnded == pc \in {"done", "aborted"}
RowSelected == selected_row.idx > 0
FilterRan == pc \in {"select", "frequency", "aborted"} \/ (pc = "done" /\ ~full_df.none)
Missing(cell) == cell.kind = "nan"

\* q occurs in the field as a case-insensitive substring
OccursIn(q, cell) ==
    /\ cell.kind = "str"
    /\ \E off \in 0..(Len(cell.s) - Len(q)) :
           \A i \in 1..Len(q) : Lower(q[i]) = Lower(cell.s[off + i])

Blank(q) == \A i \in 1..Len(q) : q[i] = " "

RowWanted(row) ==
    /\ Blank(disease_input) \/ OccursIn(Strip(disease_input), row["PhenotypeList"])
    /\ Blank(gene_input) \/ OccursIn(Strip(gene_input), row["GeneSymbol"])

\* C1: once the filter step has run, the filtered table is exactly the rows
\* of the loaded table, in order, in which every query that is non-empty
\* after trimming occurs as a case-insensitive substring of its field (a
\* missing field never matches), and it is the whole table when both
\* queries are blank.
C1_FilterIsSubstringMatch ==
    FilterRan =>
        /\ exception \notin {"re.error", "AttributeError"}
        /\ filtered_df.rows = SelectSeq(full_df.rows, RowWanted)

\* the value of a frequency field: a number, or 0 when missing or not a number
FieldValue(cell) ==
    IF cell.kind = "num" THEN cell
    ELSE IF cell.kind = "str" /\ IsNumeric(cell.s) THEN ParseNum(cell.s)
    ELSE Zero

PopCoords ==
    [af_afr |-> <<0, 20>>, af_amr |-> <<15, -90>>, af_eas |-> <<35, 110>>,
     af_nfe |-> <<48, 5>>, af_fin |-> <<62, 26>>, af_sas |-> <<22, 78>>,
     af_asj |-> <<32, 35>>, af_oth |-> <<-20, 140>>]

ExpectedPoints(row) ==
    LET Has(k) == Positive(FieldValue(row[k]))
        keys == SelectSeq(freq_cols, Has)
    IN  [i \in 1..Len(keys) |->
            [Lat |-> PopCoords[keys[i]][1], Lon |-> PopCoords[keys[i]][2],
             Freq |-> FieldValue(row[keys[i]])]]

PlottedPoints ==
    [i \in 1..Len(points) |->
        [Lat |-> points[i].Lat, Lon |-> points[i].Lon, Freq |-> points[i].Freq]]

\* C2: for every selected row that reaches the frequency section, the
\* projection is exactly one point per population key whose field is a
\* number above 0, with that key's coordinates and frequency; a missing or
\* non-numeric field counts as 0 and gives no point.
C2_ProjectionIsPositiveFields ==
    (RunEnded /\ RowSelected /\ ~Missing(selected_row.row["rsid"])) =>
        /\ exception = "none"
        /\ PlottedPoints = ExpectedPoints(selected_row.row)

Present(p) == files[p].kind # "absent"
PriorityPath ==
    IF Present("final_variant_data.csv") THEN "final_variant_data.csv"
    ELSE IF Present("final_variant_data.csv.gz") THEN "final_variant_data.csv.gz"
    ELSE IF Present("final_variant_data.zip") THEN "final_variant_data.zip"
    ELSE "None"

\* C3: a run in which load_data's body executes reads the first existing
\* path in the order .csv, .csv.gz, .zip; when none exists the run ends as
\* MissingDataFile with the error message and no table, and a run with that
\* outcome puts nothing else on the page but the closing sidebar note.
C3_LoaderPriorityAndMissingFile ==
    /\ (pc # "start" /\ data_path # "cached") =>
          /\ data_path = PriorityPath
          /\ (\A p \in PathSet : ~Present(p)) =>
                (pc = "done" /\ outcome = "MissingDataFile" /\ full_df.none)
    /\ outcome = "MissingDataFile" =>
          /\ "error_missing_file" \in rendered
          /\ rendered \subseteq {"error_missing_file", "sidebar_note"}
          /\ full_df.none /\ ~RowSelected

C3_Witness ==
    /\ pc = "done" /\ data_path = "None" /\ outcome = "MissingDataFile"
    /\ \A p \in PathSet : ~Present(p)
    /\ rendered = {"error_missing_file", "sidebar_note"}

DefinedOutcomes ==
    {"MissingDataFile", "ParseError", "NoMatchingRecords", "MissingRsid",
     "NoFrequencyData", "FrequencyMap"}

\* C4: every run ends in one of the defined inline outcomes and none ends
\* in an exception nobody handles.
C4_EveryRunEndsInline ==
    RunEnded => (exception = "none" /\ outcome \in DefinedOutcomes)

NoFrequencyData(row) == \A i \in 1..Len(freq_cols) : ~Positive(FieldValue(row[freq_cols[i]]))

\* C5: the epidemiology fallback is on the page when, and only when, the
\* selected row has no frequency data.
C5_FallbackIffNoFrequency ==
    (RunEnded /\ RowSelected) =>
        ((Tab2 \subseteq rendered) <=> NoFrequencyData(selected_row.row))

FrequencySections == {"tabs"} \cup Tab1WithMap \cup Tab1NoData \cup Tab2

\* C6: a run whose selected row has no rsid shows the MissingRsid warning
\* and none of the frequency or epidemiology elements; those elements
\* appear only for a selected row whose rsid is present.
C6_MissingRsidSkipsSections ==
    /\ (RunEnded /\ RowSelected /\ Missing(selected_row.row["rsid"])) =>
          /\ outcome = "MissingRsid"
          /\ "missing_rsid_warning" \in rendered
          /\ rendered \cap FrequencySections = {}
          /\ points = <<>>
    /\ (rendered \cap FrequencySections # {}) =>
          (RowSelected /\ ~Missing(selected_row.row["rsid"]))

C6_Witness ==
    /\ pc = "done" /\ RowSelected /\ Missing(selected_row.row["rsid"])
    /\ "missing_rsid_warning" \in rendered

\* C7: the selector is offered exactly min(500, filtered rows) labels, the
\* labels of the first 500 filtered rows in their order; 600 rows give 500.
C7_LabelsAreFirst500 ==
    RowSelected =>
        /\ Len(options) = Min(500, Len(filtered_df.rows))
        /\ Len(display_df) = Len(options)
        /\ \A i \in 1..Len(options) :
              /\ display_df[i].row = filtered_df.rows[i]
              /\ options[i] = SelectionName(filtered_df.rows[i])
        /\ (Len(filtered_df.rows) = 600 => Len(options) = 500)

C7_Witness == RowSelected /\ Len(filtered_df.rows) = 600 /\ Len(options) = 500

\* C8: within one process the file is parsed at most once, every run works
\* on the result the first load stored, and no step changes the stored
\* entry once it is there.
C8_ParsedOnceAndReused ==
    /\ [](parseCount <= 1)
    /\ []((pc # "start") => (cache.filled /\ full_df = cache.df))
    /\ [][cache.filled => cache' = cache]_vars

C8_Witness ==
    /\ pc = "frequency" /\ data_path = "cached" /\ parseCount = 1
    /\ Len(full_df.rows) = 2
    /\ ~Present("final_variant_data.csv")

IsNonNegativeInteger(cell) ==
    cell.kind = "num" /\ (~cell.neg \/ cell.mant = 0) /\ cell.mant % Pow10(cell.exp) = 0

\* C9: every rsid of a loaded table is missing or a non-negative integer,
\* and the detail card of a row with an rsid shows "rs" followed by that
\* integer.
C9_RsidIsNonNegativeInteger ==
    /\ \A i \in 1..Len(full_df.rows) :
          LET c == full_df.rows[i]["rsid"] IN Missing(c) \/ IsNonNegativeInteger(c)
    /\ (RowSelected /\ ~Missing(selected_row.row["rsid"])) =>
          LET c == selected_row.row["rsid"] IN
          /\ IsNonNegativeInteger(c)
          /\ rsid_line = <<"r", "s">> \o NatText(c.mant \div Pow10(c.exp))

\* C10: the resolved row is the earliest of the first 500 filtered rows
\* whose label is the chosen one, so its label is the chosen label and no
\* row that repeats an earlier row's label is ever resolved.
C10_ResolvesEarliestMatch ==
    RowSelected =>
        LET i == selected_row.idx IN
        /\ i \in 1..Min(500, Len(filtered_df.rows))
        /\ selected_row.row = filtered_df.rows[i]
        /\ SelectionName(selected_row.row) = selected_option
        /\ \A j \in 1..(i - 1) : SelectionName(filtered_df.rows[j]) # selected_option

C10_Witness ==
    /\ RowSelected
    /\ \E j \in (selected_row.idx + 1)..Len(options) :
          /\ options[j] = selected_option
          /\ display_df[j].row # selected_row.row

====
